---- MODULE Spec2Model ----
(***************************************************************************)
(* The calibration pipeline of freemocap: the shared-view accumulator      *)
(* (freemocap/pipelines/calibration_pipeline/shared_view_accumulator.py),  *)
(* the camera node processes (calibration_camera_node.py) and the session  *)
(* orchestrator of the design document; and the GUI thread worker that     *)
(* runs the post-processing child process                                  *)
(* (freemocap/gui/qt/workers/process_motion_capture_data_thread_worker.py).*)
(*                                                                         *)
(* A Python dict is modelled as the sequence of its <<key, value>> items   *)
(* in insertion order: assigning to a key that is present replaces the     *)
(* value in place, assigning to a new key appends an item.  A              *)
(* CalibrationCameraNodeOutputData is modelled by the one field the        *)
(* accumulator reads, can_see_target.  CameraIds are the integers 1, 2, 3  *)
(* (the cameras A, B, C of the worked examples).                           *)
(***************************************************************************)
EXTENDS Integers, Sequences, FiniteSets, TLC

\* Largest MultiFrameNumber delivered in Spec and SpecLog.
MaxFrame == 2

\* Longest recorded delivery sequence in SpecLog.
MaxDeliveries == 2

\* The camera ids a session can be created with.
AllCameraIds == {1, 2, 3}

MultiFrameNumbers == 1..MaxFrame

\* Thresholds passed to all_cameras_have_min_shared_views.
Thresholds == 0..(MaxFrame + 1)

\* The frames the capture subsystem writes to one camera's slot in a session.
MaxNodeFrames == 1

\* The observations the output channel holds before a put waits.
MaxQueue == 1

\* The cameras that have a CalibrationCameraNode in SpecNodes and SpecSession.
Nodes == {1, 2}

VARIABLES
    camera_ids,             \* SharedViewAccumulator.camera_ids
    shared_views_by_frame,  \* SharedViewAccumulator.shared_views_by_frame
    delivered               \* SpecLog only: the receive calls made so far, in order

VARIABLES
    shutdown_event,         \* the multiprocessing.Event shared by the nodes
    output_queue,           \* the Queue shared by the nodes, oldest first
    node_pc,                \* per node: where its process is in _run
    node_error,             \* per node: the exception that is propagating or ended it
    handle_open,            \* per node: camera_ring_shm is open in the process
    frames_retrieved,       \* per node: the frames retrieve_frame() has returned
    observation,            \* per node: the local variable observation
    after_flag,             \* per node: iterations begun and puts made while the flag was set
    flag_set_by             \* who set the flag first: a node, 0 for nobody, -1 for the
                            \* session's caller (cancel), -2 for the orchestrator

VARIABLES
    status,                 \* the orchestrator's state
    reported,               \* the condition the orchestrator last reported to its caller
    threshold,              \* the min_shared_views the session was started with
    solver_input            \* <<>>, or the one snapshot handed to the solver

accumulator_vars == <<camera_ids, shared_views_by_frame, delivered>>

node_vars ==
    <<shutdown_event, output_queue, node_pc, node_error, handle_open,
      frames_retrieved, observation, after_flag, flag_set_by>>

session_vars == <<status, reported, threshold, solver_input>>

\* ProcessMotionCaptureDataThreadWorker
VARIABLES
    worker_pc,              \* where run is
    process,                \* self._process: "initial", "alive" or "dead"
    queue,                  \* self._queue, the messages not yet taken
    in_progress,            \* the messages emitted with the in_progress signal, in order
    finished,               \* how many times the finished signal was emitted
    put_messages            \* history: the messages the child process has put, in order

worker_vars == <<worker_pc, process, queue, in_progress, finished, put_messages>>

vars == <<accumulator_vars, node_vars, session_vars, worker_vars>>

----------------------------------------------------------------------------
(* Python dict operations *)

EmptyDict == <<>>

DictKeys(d) == {d[i][1] : i \in DOMAIN d}

DictHas(d, k) == \E i \in DOMAIN d : d[i][1] = k

DictGet(d, k) == d[CHOOSE i \in DOMAIN d : d[i][1] = k][2]

\* d[k] = v
DictSet(d, k, v) ==
    IF DictHas(d, k)
    THEN [i \in DOMAIN d |-> IF d[i][1] = k THEN <<k, v>> ELSE d[i]]
    ELSE Append(d, <<k, v>>)

\* list(d.values())
DictValues(d) == [i \in DOMAIN d |-> d[i][2]]

----------------------------------------------------------------------------
(* TargetViewByCamera *)

TargetViewByCamera(multi_frame_number, views_by_camera) ==
    [multi_frame_number |-> multi_frame_number, views_by_camera |-> views_by_camera]

RECURSIVE CamerasSeeing(_)
\* [camera_id for camera_id, output in items if output.can_see_target]
CamerasSeeing(items) ==
    IF items = <<>> THEN <<>>
    ELSE IF Head(items)[2].can_see_target
         THEN <<Head(items)[1]>> \o CamerasSeeing(Tail(items))
         ELSE CamerasSeeing(Tail(items))

cameras_that_can_see_target(view) == CamerasSeeing(view.views_by_camera)

\* Mutant: one camera seeing the target already counts as a shared view.
multiple_cameras_AtLeastOne(view) == Len(cameras_that_can_see_target(view)) > 0

\* Mutant: a shared view needs more than two cameras.
multiple_cameras_MoreThanTwo(view) == Len(cameras_that_can_see_target(view)) > 2

multiple_cameras_can_see_target(view) == Len(cameras_that_can_see_target(view)) > 1

----------------------------------------------------------------------------
(* SharedViewAccumulator *)

RECURSIVE CountsFromOne(_)
\* Mutant: the counts start at 1.
CountsFromOne(ids) ==
    IF ids = <<>> THEN EmptyDict
    ELSE DictSet(CountsFromOne(SubSeq(ids, 1, Len(ids) - 1)), ids[Len(ids)], 1)

RECURSIVE ZeroCounts(_)
\* {camera_id: 0 for camera_id in self.camera_ids}
ZeroCounts(ids) ==
    IF ids = <<>> THEN EmptyDict
    ELSE DictSet(ZeroCounts(SubSeq(ids, 1, Len(ids) - 1)), ids[Len(ids)], 0)

\* Mutant: the count goes up by 2.
IncrementByTwo(acc, camera_id) ==
    IF acc.raised THEN acc
    ELSE IF DictHas(acc.value, camera_id)
         THEN [acc EXCEPT !.value = DictSet(@, camera_id, DictGet(@, camera_id) + 2)]
         ELSE [acc EXCEPT !.raised = TRUE]

\* shared_view_count_by_camera[camera_id] += 1, a KeyError for an id that is
\* not a key; acc is [raised, value], raised once the KeyError has happened.
IncrementCount(acc, camera_id) ==
    IF acc.raised THEN acc
    ELSE IF DictHas(acc.value, camera_id)
         THEN [acc EXCEPT !.value = DictSet(@, camera_id, DictGet(@, camera_id) + 1)]
         ELSE [acc EXCEPT !.raised = TRUE]

RECURSIVE IncrementEach(_, _)
\* for camera_id in shared_view_by_frame.cameras_that_can_see_target: ... += 1
IncrementEach(acc, cams) ==
    IF cams = <<>> THEN acc
    ELSE IncrementEach(IncrementCount(acc, Head(cams)), Tail(cams))

RECURSIVE CountViews(_, _)
\* for shared_view_by_frame in self.shared_views_by_frame.values(): ...
CountViews(acc, views) ==
    IF views = <<>> THEN acc
    ELSE CountViews(
            IF multiple_cameras_can_see_target(Head(views))
            THEN IncrementEach(acc, cameras_that_can_see_target(Head(views)))
            ELSE acc,
            Tail(views))

\* The property computed for an accumulator (ids, by_frame).
CountByCamera(ids, by_frame) ==
    CountViews([raised |-> FALSE, value |-> ZeroCounts(ids)], DictValues(by_frame))

shared_view_count_by_camera == CountByCamera(camera_ids, shared_views_by_frame).value

\* Mutant: no view is left out.
all_target_views == DictValues(shared_views_by_frame)

\* [view for view in self.shared_views_by_frame.values() if view.multiple_cameras_can_see_target]
shared_target_views ==
    SelectSeq(DictValues(shared_views_by_frame), multiple_cameras_can_see_target)

\* Mutant: every output is kept.
AllItems(items) == items

RECURSIVE SeeingItems(_)
\* {camera_id: output for camera_id, output in camera_node_output.items() if output.can_see_target}
SeeingItems(items) ==
    IF items = <<>> THEN EmptyDict
    ELSE LET last == items[Len(items)]
             rest == SeeingItems(SubSeq(items, 1, Len(items) - 1))
         IN  IF last[2].can_see_target THEN DictSet(rest, last[1], last[2]) ELSE rest

\* Mutant: the views received for a frame that has an entry are appended to
\* the views the entry holds.
receive_AppendingViews(by_frame, multi_frame_number, camera_node_output) ==
    DictSet(by_frame, multi_frame_number,
            TargetViewByCamera(multi_frame_number,
                (IF DictHas(by_frame, multi_frame_number)
                 THEN DictGet(by_frame, multi_frame_number).views_by_camera
                 ELSE EmptyDict) \o SeeingItems(camera_node_output)))

\* The accumulator's map after receive_camera_node_output(multi_frame_number, camera_node_output).
receive_camera_node_output(by_frame, multi_frame_number, camera_node_output) ==
    DictSet(by_frame, multi_frame_number,
            TargetViewByCamera(multi_frame_number, SeeingItems(camera_node_output)))

RECURSIVE AllGreater(_, _)
\* Mutant: the comparison is strict.
AllGreater(values, min_shared_views) ==
    IF values = <<>> THEN TRUE
    ELSE IF Head(values) > min_shared_views
         THEN AllGreater(Tail(values), min_shared_views)
         ELSE FALSE

RECURSIVE AllAtMost(_, _)
\* Mutant: the comparison is reversed.
AllAtMost(values, min_shared_views) ==
    IF values = <<>> THEN TRUE
    ELSE IF Head(values) <= min_shared_views
         THEN AllAtMost(Tail(values), min_shared_views)
         ELSE FALSE

RECURSIVE AllAtLeast(_, _)
\* all(shared_views >= min_shared_views for shared_views in values)
AllAtLeast(values, min_shared_views) ==
    IF values = <<>> THEN TRUE
    ELSE IF Head(values) >= min_shared_views
         THEN AllAtLeast(Tail(values), min_shared_views)
         ELSE FALSE

\* Mutant: any() instead of all().
some_camera_has_min_shared_views(min_shared_views) ==
    \E i \in DOMAIN shared_view_count_by_camera :
        shared_view_count_by_camera[i][2] >= min_shared_views

\* Mutant: the threshold is not used.
all_cameras_have_counts(min_shared_views) ==
    AllAtLeast(DictValues(shared_view_count_by_camera), 0)

all_cameras_have_min_shared_views(min_shared_views) ==
    AllAtLeast(DictValues(shared_view_count_by_camera), min_shared_views)

----------------------------------------------------------------------------
(* Inputs *)

RECURSIVE SortedSeq(_)
\* The ids of S in increasing order.
SortedSeq(S) ==
    IF S = {} THEN <<>>
    ELSE LET m == CHOOSE x \in S : \A y \in S : x <= y
         IN  <<m>> \o SortedSeq(S \ {m})

\* A camera node's output.
OutputData(can_see_target) == [can_see_target |-> can_see_target]

RECURSIVE OutputsOf(_, _)
\* The dict of the outputs of the cameras ids[i] that report[i] does not say
\* are missing.
OutputsOf(ids, report) ==
    IF ids = <<>> THEN EmptyDict
    ELSE LET n == Len(ids)
             rest == OutputsOf(SubSeq(ids, 1, n - 1), report)
         IN  IF report[n] = "missing" THEN rest
             ELSE Append(rest, <<ids[n], OutputData(report[n] = "sees")>>)

\* The dicts camera_node_output can be: for each camera of ids no output, an
\* output that sees the target, or one that does not.
CameraNodeOutputs(ids) ==
    {OutputsOf(ids, report) : report \in [DOMAIN ids -> {"missing", "sees", "blind"}]}

KnownCameras == {camera_ids[i] : i \in DOMAIN camera_ids}

----------------------------------------------------------------------------
(* CalibrationCameraNode.create: the processes are made, none has run *)

NodesCreated ==
    /\ shutdown_event = FALSE
    /\ output_queue = <<>>
    /\ node_pc = [n \in Nodes |-> "start"]
    /\ node_error = [n \in Nodes |-> "none"]
    /\ handle_open = [n \in Nodes |-> FALSE]
    /\ frames_retrieved = [n \in Nodes |-> 0]
    /\ observation = [n \in Nodes |-> "none"]
    /\ after_flag = [n \in Nodes |-> [iterations |-> 0, published |-> 0]]
    /\ flag_set_by = 0

\* start_session(camera_ids, detector_config, min_shared_views)
SessionCreated(min_shared_views) ==
    /\ status = "COLLECTING"
    /\ reported = "none"
    /\ threshold = min_shared_views
    /\ solver_input = <<>>

\* ProcessMotionCaptureDataThreadWorker.__init__
WorkerCreated ==
    /\ worker_pc = "begin"
    /\ process = "initial"
    /\ queue = <<>>
    /\ in_progress = <<>>
    /\ finished = 0
    /\ put_messages = <<>>

----------------------------------------------------------------------------
(* Specification *)

\* SharedViewAccumulator.create(camera_ids)
create(ids) ==
    /\ camera_ids = ids
    /\ shared_views_by_frame = EmptyDict

Init ==
    /\ \E S \in SUBSET AllCameraIds : create(SortedSeq(S))
    /\ delivered = <<>>
    /\ NodesCreated
    /\ SessionCreated(0)
    /\ WorkerCreated

Receive ==
    \E f \in MultiFrameNumbers, out \in CameraNodeOutputs(camera_ids) :
        /\ shared_views_by_frame' = receive_camera_node_output(shared_views_by_frame, f, out)
        /\ UNCHANGED <<camera_ids, delivered>>
        /\ UNCHANGED <<node_vars, session_vars, worker_vars>>

Next == Receive

Spec == Init /\ [][Next]_vars

----------------------------------------------------------------------------
(* SpecLog: a session of at most MaxDeliveries receive calls, each recorded *)
(* in delivered as <<multi_frame_number, camera_node_output>>.              *)

ReceiveLogged ==
    \E f \in MultiFrameNumbers, out \in CameraNodeOutputs(camera_ids) :
        /\ Len(delivered) < MaxDeliveries
        /\ shared_views_by_frame' = receive_camera_node_output(shared_views_by_frame, f, out)
        /\ delivered' = Append(delivered, <<f, out>>)
        /\ UNCHANGED camera_ids
        /\ UNCHANGED <<node_vars, session_vars, worker_vars>>

NextLog == ReceiveLogged

SpecLog == Init /\ [][NextLog]_vars

RECURSIVE Replay(_)
\* The accumulator's map after the receive calls of log, made in order on a
\* new accumulator.
Replay(log) ==
    IF log = <<>> THEN EmptyDict
    ELSE LET last == log[Len(log)]
         IN  receive_camera_node_output(Replay(SubSeq(log, 1, Len(log) - 1)), last[1], last[2])

----------------------------------------------------------------------------
(* SpecCoSeeing: cameras A, B, C (1, 2, 3) and frames 1, 2, 3.  A and B    *)
(* deliver any outputs, together or apart, in any order; C never sees the  *)
(* target: it reports so or is missing from the delivery.                  *)

CoSeeingFrames == {1, 2, 3}

CoSeeingOutputs ==
    {OutputsOf(camera_ids, report) :
        report \in {r \in [DOMAIN camera_ids -> {"missing", "sees", "blind"}] :
                        \A i \in DOMAIN camera_ids :
                            camera_ids[i] = 3 => r[i] # "sees"}}

InitCoSeeing ==
    /\ create(SortedSeq(AllCameraIds))
    /\ delivered = <<>>
    /\ NodesCreated
    /\ SessionCreated(0)
    /\ WorkerCreated

ReceiveCoSeeing ==
    \E f \in CoSeeingFrames, out \in CoSeeingOutputs :
        /\ shared_views_by_frame' = receive_camera_node_output(shared_views_by_frame, f, out)
        /\ UNCHANGED <<camera_ids, delivered>>
        /\ UNCHANGED <<node_vars, session_vars, worker_vars>>

NextCoSeeing == ReceiveCoSeeing

SpecCoSeeing == InitCoSeeing /\ [][NextCoSeeing]_vars

----------------------------------------------------------------------------
(* SpecPairwise: cameras A, B, C (1, 2, 3); A and B see the target in      *)
(* frames 1-2, B and C in frames 3-4, A and C in frames 5-6.  The frames   *)
(* are received whole, in any order, any number of times; the camera that  *)
(* does not see the target reports so or is missing from the delivery.     *)

PairwiseScenario == <<{1, 2}, {1, 2}, {2, 3}, {2, 3}, {1, 3}, {1, 3}>>

PairwiseOutputs(f) ==
    {OutputsOf(camera_ids, report) :
        report \in {r \in [DOMAIN camera_ids -> {"missing", "sees", "blind"}] :
                        \A i \in DOMAIN camera_ids :
                            r[i] = "sees" <=> camera_ids[i] \in PairwiseScenario[f]}}

InitPairwise ==
    /\ create(SortedSeq(AllCameraIds))
    /\ delivered = <<>>
    /\ NodesCreated
    /\ SessionCreated(0)
    /\ WorkerCreated

ReceivePairwise ==
    \E f \in DOMAIN PairwiseScenario : \E out \in PairwiseOutputs(f) :
        /\ shared_views_by_frame' = receive_camera_node_output(shared_views_by_frame, f, out)
        /\ UNCHANGED <<camera_ids, delivered>>
        /\ UNCHANGED <<node_vars, session_vars, worker_vars>>

NextPairwise == ReceivePairwise

SpecPairwise == InitPairwise /\ [][NextPairwise]_vars

----------------------------------------------------------------------------
(* SpecForeign: as Spec, but a delivery may hold the output of any camera  *)
(* of AllCameraIds, one the accumulator was created with or not.           *)

ReceiveForeign ==
    \E f \in MultiFrameNumbers, out \in CameraNodeOutputs(SortedSeq(AllCameraIds)) :
        /\ shared_views_by_frame' = receive_camera_node_output(shared_views_by_frame, f, out)
        /\ UNCHANGED <<camera_ids, delivered>>
        /\ UNCHANGED <<node_vars, session_vars, worker_vars>>

NextForeign == ReceiveForeign

SpecForeign == Init /\ [][NextForeign]_vars

----------------------------------------------------------------------------
(* CalibrationCameraNode._run, one process per camera                      *)
(* (freemocap/pipelines/calibration_pipeline/calibration_camera_node.py).  *)
(* node_pc is the statement the process is at:                             *)
(*   "start"    lines 70-76, before the try                                *)
(*   "check"    the while condition, line 79                               *)
(*   "poll"     the sleep and new_frame_available / retrieve_frame, 80-82  *)
(*   "detect"   charuco_tracker.process_image, line 83                     *)
(*   "put"      output_queue.put, line 84                                  *)
(*   "finally"  an exception was logged and re-raised (85-87) or the loop  *)
(*              ended; shutdown_event.set() is next (line 90)              *)
(*   "close"    camera_ring_shm.close() is next (line 91)                  *)
(*   "exited"   the process has ended                                      *)
(* An exception is recorded in node_error while it propagates.             *)

\* CalibrationCameraNodeOutputData(data=observation): the message has no
\* other field.
CalibrationCameraNodeOutputData(obs) == [data |-> OutputData(obs = "sees")]

Raise(n, error, pc) ==
    /\ node_error' = [node_error EXCEPT ![n] = error]
    /\ node_pc' = [node_pc EXCEPT ![n] = pc]

Goto(n, pc) ==
    /\ node_pc' = [node_pc EXCEPT ![n] = pc]
    /\ UNCHANGED node_error

\* Lines 70-76.  recreate and CharucoTracker.create are outside the try: an
\* exception of either ends the process at once.
NodeStart(n) ==
    /\ node_pc[n] = "start"
    /\ \/ /\ handle_open' = [handle_open EXCEPT ![n] = TRUE]
          /\ Goto(n, "check")
       \/ /\ UNCHANGED handle_open
          /\ Raise(n, "recreate", "exited")
       \/ /\ handle_open' = [handle_open EXCEPT ![n] = TRUE]
          /\ Raise(n, "tracker", "exited")
    /\ UNCHANGED <<shutdown_event, output_queue, frames_retrieved, observation, after_flag, flag_set_by>>
    /\ UNCHANGED <<accumulator_vars, session_vars, worker_vars>>

\* A variant of the loop condition: the flag ends the loop only when no
\* frame is left to claim.
LoopContinuesWhileFrames(n) == ~shutdown_event \/ frames_retrieved[n] < MaxNodeFrames

\* while not shutdown_event.is_set()
LoopContinues(n) == ~shutdown_event

\* Line 79.
NodeCheck(n) ==
    /\ node_pc[n] = "check"
    /\ IF LoopContinues(n)
       THEN /\ Goto(n, "poll")
            /\ after_flag' = [after_flag EXCEPT ![n].iterations = @ + (IF shutdown_event THEN 1 ELSE 0)]
       ELSE /\ Goto(n, "finally")
            /\ UNCHANGED after_flag
    /\ UNCHANGED <<shutdown_event, output_queue, handle_open, frames_retrieved, observation, flag_set_by>>
    /\ UNCHANGED <<accumulator_vars, session_vars, worker_vars>>

\* Lines 80-82.  The capture subsystem writes at most MaxNodeFrames frames to
\* the slot; whether one is new when the node looks is its choice.
NodePoll(n) ==
    /\ node_pc[n] = "poll"
    /\ \/ \E new_frame_available \in BOOLEAN :
             /\ new_frame_available => frames_retrieved[n] < MaxNodeFrames
             /\ IF new_frame_available
                THEN /\ frames_retrieved' = [frames_retrieved EXCEPT ![n] = @ + 1]
                     /\ Goto(n, "detect")
                ELSE /\ UNCHANGED frames_retrieved
                     /\ Goto(n, "check")
       \/ /\ UNCHANGED frames_retrieved
          /\ Raise(n, "shm", "finally")
    /\ UNCHANGED <<shutdown_event, output_queue, handle_open, observation, after_flag, flag_set_by>>
    /\ UNCHANGED <<accumulator_vars, session_vars, worker_vars>>

\* Line 83.
NodeDetect(n) ==
    /\ node_pc[n] = "detect"
    /\ \/ \E obs \in {"sees", "blind"} :
             /\ observation' = [observation EXCEPT ![n] = obs]
             /\ Goto(n, "put")
       \/ /\ UNCHANGED observation
          /\ Raise(n, "detector", "finally")
    /\ UNCHANGED <<shutdown_event, output_queue, handle_open, frames_retrieved, after_flag, flag_set_by>>
    /\ UNCHANGED <<accumulator_vars, session_vars, worker_vars>>

\* Line 84.  put waits while the channel holds MaxQueue observations.  The
\* local variable observation is not read again before line 83 assigns it:
\* the model forgets its value here.
NodePut(n) ==
    /\ node_pc[n] = "put"
    /\ \/ /\ Len(output_queue) < MaxQueue
          /\ output_queue' = Append(output_queue, CalibrationCameraNodeOutputData(observation[n]))
          /\ after_flag' = [after_flag EXCEPT ![n].published = @ + (IF shutdown_event THEN 1 ELSE 0)]
          /\ Goto(n, "check")
       \/ /\ UNCHANGED <<output_queue, after_flag>>
          /\ Raise(n, "queue", "finally")
    /\ observation' = [observation EXCEPT ![n] = "none"]
    /\ UNCHANGED <<shutdown_event, handle_open, frames_retrieved, flag_set_by>>
    /\ UNCHANGED <<accumulator_vars, session_vars, worker_vars>>

\* A variant of the finally block that does not set the flag.
NodeFinallyWithoutSet(n) ==
    /\ node_pc[n] = "finally"
    /\ Goto(n, "close")
    /\ UNCHANGED <<shutdown_event, output_queue, handle_open, frames_retrieved, observation, after_flag, flag_set_by>>
    /\ UNCHANGED <<accumulator_vars, session_vars, worker_vars>>

\* A variant of the finally block that sets the flag only when no exception
\* is propagating.
NodeFinallySetsOnCleanExit(n) ==
    /\ node_pc[n] = "finally"
    /\ shutdown_event' = (shutdown_event \/ node_error[n] = "none")
    /\ flag_set_by' = (IF shutdown_event \/ node_error[n] # "none" THEN flag_set_by ELSE n)
    /\ Goto(n, "close")
    /\ UNCHANGED <<output_queue, handle_open, frames_retrieved, observation, after_flag>>
    /\ UNCHANGED <<accumulator_vars, session_vars, worker_vars>>

\* Line 90.
NodeFinally(n) ==
    /\ node_pc[n] = "finally"
    /\ shutdown_event' = TRUE
    /\ flag_set_by' = (IF shutdown_event THEN flag_set_by ELSE n)
    /\ Goto(n, "close")
    /\ UNCHANGED <<output_queue, handle_open, frames_retrieved, observation, after_flag>>
    /\ UNCHANGED <<accumulator_vars, session_vars, worker_vars>>

\* Line 91; the process then ends, with the exception if there is one.
NodeClose(n) ==
    /\ node_pc[n] = "close"
    /\ handle_open' = [handle_open EXCEPT ![n] = FALSE]
    /\ Goto(n, "exited")
    /\ UNCHANGED <<shutdown_event, output_queue, frames_retrieved, observation, after_flag, flag_set_by>>
    /\ UNCHANGED <<accumulator_vars, session_vars, worker_vars>>

NodeStep(n) ==
    \/ NodeStart(n)
    \/ NodeCheck(n)
    \/ NodePoll(n)
    \/ NodeDetect(n)
    \/ NodePut(n)
    \/ NodeFinally(n)
    \/ NodeClose(n)

----------------------------------------------------------------------------
(* SpecNodes: the node processes of cameras 1 and 2, the consumer of the   *)
(* output channel, and the holder of the shutdown event, which may set it. *)

\* The consumer takes the oldest observation off the channel.
Consume ==
    /\ output_queue # <<>>
    /\ output_queue' = Tail(output_queue)
    /\ UNCHANGED <<shutdown_event, node_pc, node_error, handle_open, frames_retrieved, observation, after_flag, flag_set_by>>
    /\ UNCHANGED <<accumulator_vars, session_vars, worker_vars>>

\* The event is set from outside the nodes.
SetShutdown ==
    /\ ~shutdown_event
    /\ shutdown_event' = TRUE
    /\ flag_set_by' = -1
    /\ UNCHANGED <<output_queue, node_pc, node_error, handle_open, frames_retrieved, observation, after_flag>>
    /\ UNCHANGED <<accumulator_vars, session_vars, worker_vars>>

InitNodes ==
    /\ create(SortedSeq(Nodes))
    /\ delivered = <<>>
    /\ NodesCreated
    /\ SessionCreated(0)
    /\ WorkerCreated

NextNodes ==
    \/ \E n \in Nodes : NodeStart(n)
    \/ \E n \in Nodes : NodeCheck(n)
    \/ \E n \in Nodes : NodePoll(n)
    \/ \E n \in Nodes : NodeDetect(n)
    \/ \E n \in Nodes : NodePut(n)
    \/ \E n \in Nodes : NodeFinally(n)
    \/ \E n \in Nodes : NodeClose(n)
    \/ Consume
    \/ SetShutdown

SpecNodes == InitNodes /\ [][NextNodes]_vars

\* Every node process is scheduled again and again, and the channel is
\* consumed while it holds an observation.
FairSpecNodes ==
    /\ SpecNodes
    /\ \A n \in Nodes : WF_vars(NodeStep(n))
    /\ WF_vars(Consume)

----------------------------------------------------------------------------
(* The calibration trigger / orchestrator.  Its code is not among the      *)
(* source files: the state machine below follows sections 4.3, 5 and 7 of  *)
(* the design document.  It runs in one thread with the consumer of the    *)
(* output channel, which feeds the accumulator.  Cancellation is the       *)
(* caller setting the shared shutdown flag (SetShutdown); a node reports   *)
(* an error by setting the same flag.                                      *)

SessionThresholds == {1, 5}

\* The MultiFrameNumbers the consumer loop delivers in SpecSession.
SessionFrames == {1}

\* The orchestrator moves to ABORTED: the nodes are sent the shutdown flag and
\* the accumulator's partial state is discarded.
Abort(reason) ==
    /\ status' = "ABORTED"
    /\ reported' = reason
    /\ shutdown_event' = TRUE
    /\ flag_set_by' = (IF shutdown_event THEN flag_set_by ELSE -2)
    /\ shared_views_by_frame' = EmptyDict
    /\ UNCHANGED <<camera_ids, delivered, threshold, solver_input>>
    /\ UNCHANGED worker_vars
    /\ UNCHANGED <<output_queue, node_pc, node_error, handle_open, frames_retrieved, observation, after_flag>>

\* Why the flag was found set.
FlagReason == IF flag_set_by = -1 THEN "cancelled" ELSE "node error"

\* The outputs of a frame the consumer loop hands the accumulator: every
\* camera of the session reports, seeing the target or not.
SessionOutputs ==
    {OutputsOf(camera_ids, report) : report \in [DOMAIN camera_ids -> {"sees", "blind"}]}

\* The consumer loop takes one observation off the channel and hands the
\* accumulator the output of a frame.
Aggregate ==
    /\ status = "COLLECTING"
    /\ output_queue # <<>>
    /\ output_queue' = Tail(output_queue)
    /\ \E f \in SessionFrames, out \in SessionOutputs :
          shared_views_by_frame' = receive_camera_node_output(shared_views_by_frame, f, out)
    /\ UNCHANGED <<camera_ids, delivered, session_vars, worker_vars>>
    /\ UNCHANGED <<shutdown_event, node_pc, node_error, handle_open, frames_retrieved, observation, after_flag, flag_set_by>>

\* The readiness test of the poll loop and of "finish early".
CoverageSufficient == all_cameras_have_min_shared_views(threshold)

\* Poll boundary, flag clear, predicate true.
PollReady ==
    /\ status = "COLLECTING"
    /\ ~shutdown_event
    /\ CoverageSufficient
    /\ status' = "READY"
    /\ UNCHANGED <<reported, threshold, solver_input>>
    /\ UNCHANGED <<accumulator_vars, node_vars, worker_vars>>

\* Poll boundary, flag set by the caller or by a node.
PollAbort ==
    /\ status = "COLLECTING"
    /\ shutdown_event
    /\ Abort(FlagReason)

\* The operator's "finish early" signal.
FinishEarly ==
    /\ status = "COLLECTING"
    /\ IF CoverageSufficient
       THEN /\ status' = "READY"
            /\ UNCHANGED <<reported, threshold, solver_input>>
            /\ UNCHANGED <<accumulator_vars, node_vars, worker_vars>>
       ELSE \/ /\ reported' = "insufficient coverage"
               /\ UNCHANGED <<status, threshold, solver_input>>
               /\ UNCHANGED <<accumulator_vars, node_vars, worker_vars>>
            \/ Abort("insufficient coverage")

\* The session timeout expires while the orchestrator waits for READY.
SessionTimeout ==
    /\ status = "COLLECTING"
    /\ ~shutdown_event
    /\ ~CoverageSufficient
    /\ Abort("insufficient coverage")

\* READY to SOLVING: the shutdown flag is set first.
StartSolving ==
    /\ status = "READY"
    /\ ~shutdown_event
    /\ status' = "SOLVING"
    /\ shutdown_event' = TRUE
    /\ flag_set_by' = -2
    /\ UNCHANGED <<reported, threshold, solver_input>>
    /\ UNCHANGED <<accumulator_vars, worker_vars>>
    /\ UNCHANGED <<output_queue, node_pc, node_error, handle_open, frames_retrieved, observation, after_flag>>

\* READY, flag set by the caller or by a node.
AbortReady ==
    /\ status = "READY"
    /\ shutdown_event
    /\ Abort(FlagReason)

\* SOLVING: shared_target_views is snapshotted; the snapshot records the
\* accumulator's map and what each node had published by then.
Snapshot ==
    /\ status = "SOLVING"
    /\ solver_input = <<>>
    /\ solver_input' = <<[views |-> shared_target_views,
                          accumulated |-> shared_views_by_frame,
                          published |-> [n \in Nodes |-> after_flag[n].published]]>>
    /\ UNCHANGED <<status, reported, threshold>>
    /\ UNCHANGED <<accumulator_vars, node_vars, worker_vars>>

\* The solver returns the calibration.
SolverReturns ==
    /\ status = "SOLVING"
    /\ solver_input # <<>>
    /\ status' = "DONE"
    /\ UNCHANGED <<reported, threshold, solver_input>>
    /\ UNCHANGED <<accumulator_vars, node_vars, worker_vars>>

\* A variant of the solver's failure: the session collects again.
SolverFailsRetries ==
    /\ status = "SOLVING"
    /\ solver_input # <<>>
    /\ status' = "COLLECTING"
    /\ reported' = "degenerate configuration"
    /\ UNCHANGED <<threshold, solver_input>>
    /\ UNCHANGED <<accumulator_vars, node_vars, worker_vars>>

\* The solver fails with a degenerate configuration.
SolverFails ==
    /\ status = "SOLVING"
    /\ solver_input # <<>>
    /\ Abort("degenerate configuration")

InitSession ==
    /\ create(SortedSeq(Nodes))
    /\ delivered = <<>>
    /\ NodesCreated
    /\ \E min_shared_views \in SessionThresholds : SessionCreated(min_shared_views)
    /\ WorkerCreated

NextSession ==
    \/ \E n \in Nodes : NodeStart(n)
    \/ \E n \in Nodes : NodeCheck(n)
    \/ \E n \in Nodes : NodePoll(n)
    \/ \E n \in Nodes : NodeDetect(n)
    \/ \E n \in Nodes : NodePut(n)
    \/ \E n \in Nodes : NodeFinally(n)
    \/ \E n \in Nodes : NodeClose(n)
    \/ SetShutdown
    \/ Aggregate
    \/ PollReady
    \/ PollAbort
    \/ FinishEarly
    \/ SessionTimeout
    \/ StartSolving
    \/ AbortReady
    \/ Snapshot
    \/ SolverReturns
    \/ SolverFails

SpecSession == InitSession /\ [][NextSession]_vars

----------------------------------------------------------------------------
(* ProcessMotionCaptureDataThreadWorker.run: the thread starts the child   *)
(* process, relays the messages the child puts on the queue as in_progress *)
(* signals while the child is alive, drains the queue once it is dead, and *)
(* emits finished.  The child process is the environment: it puts messages *)
(* and exits.                                                              *)

\* The most messages the child process puts.
MaxMessages == 2

\* The messages the child process may put.
Messages == {"tracking", "triangulating"}

\* kill_event.clear(), mkdir, save_dictionary_to_json: the statements before
\* the try; an exception in them leaves run.
RunBegin ==
    /\ worker_pc = "begin"
    /\ \/ worker_pc' = "start"
       \/ worker_pc' = "raised"
    /\ UNCHANGED <<process, queue, in_progress, finished, put_messages>>
    /\ UNCHANGED <<accumulator_vars, node_vars, session_vars>>

\* self._process.start(), inside the try
RunStart ==
    /\ worker_pc = "start"
    /\ \/ /\ process' = "alive"
          /\ worker_pc' = "is_alive"
       \/ /\ worker_pc' = "except"
          /\ UNCHANGED process
    /\ UNCHANGED <<queue, in_progress, finished, put_messages>>
    /\ UNCHANGED <<accumulator_vars, node_vars, session_vars>>

\* while self._process.is_alive():
RunIsAlive ==
    /\ worker_pc = "is_alive"
    /\ \/ worker_pc' = (IF process = "alive" THEN "poll" ELSE "drain")
       \/ worker_pc' = "except"
    /\ UNCHANGED <<process, queue, in_progress, finished, put_messages>>
    /\ UNCHANGED <<accumulator_vars, node_vars, session_vars>>

\* message = self._queue.get(); self.in_progress.emit(message)
GetAndEmit ==
    /\ in_progress' = Append(in_progress, Head(queue))
    /\ queue' = Tail(queue)

\* time.sleep(0.01); if self._queue.empty(): continue; else: get and emit
RunPoll ==
    /\ worker_pc = "poll"
    /\ IF queue = <<>> THEN UNCHANGED <<queue, in_progress>> ELSE GetAndEmit
    /\ worker_pc' = "is_alive"
    /\ UNCHANGED <<process, finished, put_messages>>
    /\ UNCHANGED <<accumulator_vars, node_vars, session_vars>>

\* while not self._queue.empty(): get and emit
RunDrain ==
    /\ worker_pc = "drain"
    /\ IF queue = <<>>
       THEN /\ worker_pc' = "finish"
            /\ UNCHANGED <<queue, in_progress>>
       ELSE /\ GetAndEmit
            /\ UNCHANGED worker_pc
    /\ UNCHANGED <<process, finished, put_messages>>
    /\ UNCHANGED <<accumulator_vars, node_vars, session_vars>>

\* except Exception as e: logger.error(...)
RunExcept ==
    /\ worker_pc = "except"
    /\ worker_pc' = "finish"
    /\ UNCHANGED <<process, queue, in_progress, finished, put_messages>>
    /\ UNCHANGED <<accumulator_vars, node_vars, session_vars>>

\* self.finished.emit()
RunFinish ==
    /\ worker_pc = "finish"
    /\ finished' = finished + 1
    /\ worker_pc' = "returned"
    /\ UNCHANGED <<process, queue, in_progress, put_messages>>
    /\ UNCHANGED <<accumulator_vars, node_vars, session_vars>>

\* The child process puts a message on the queue it was given.
ChildPut ==
    /\ process = "alive"
    /\ Len(put_messages) < MaxMessages
    /\ \E message \in Messages :
          /\ queue' = Append(queue, message)
          /\ put_messages' = Append(put_messages, message)
    /\ UNCHANGED <<worker_pc, process, in_progress, finished>>
    /\ UNCHANGED <<accumulator_vars, node_vars, session_vars>>

\* The child process exits.
ChildExit ==
    /\ process = "alive"
    /\ process' = "dead"
    /\ UNCHANGED <<worker_pc, queue, in_progress, finished, put_messages>>
    /\ UNCHANGED <<accumulator_vars, node_vars, session_vars>>

InitWorker ==
    /\ create(SortedSeq(Nodes))
    /\ delivered = <<>>
    /\ NodesCreated
    /\ SessionCreated(0)
    /\ WorkerCreated

NextWorker ==
    \/ RunBegin
    \/ RunStart
    \/ RunIsAlive
    \/ RunPoll
    \/ RunDrain
    \/ RunExcept
    \/ RunFinish
    \/ ChildPut
    \/ ChildExit

SpecWorker == InitWorker /\ [][NextWorker]_vars

----------------------------------------------------------------------------
(* Vocabulary of the properties, stated on the stored state without the    *)
(* accumulator's own operators.                                            *)

StoredFrames == DictKeys(shared_views_by_frame)

Entry(f) == DictGet(shared_views_by_frame, f)

\* The cameras stored in a view whose observation sees the target.
Seeing(view) ==
    {view.views_by_camera[i][1] : 
        i \in {j \in DOMAIN view.views_by_camera : view.views_by_camera[j][2].can_see_target}}

\* The stored frames in which camera c and at least one other camera see the target.
MultiViewFrames(c) ==
    {f \in StoredFrames : c \in Seeing(Entry(f)) /\ Cardinality(Seeing(Entry(f))) >= 2}

Count(c) == DictGet(shared_view_count_by_camera, c)

----------------------------------------------------------------------------
(* Properties *)

Permuted(log, p) == [i \in DOMAIN log |-> log[p[i]]]

\* Every delivery of the log carries an observation, and the log holds at
\* most one observation per (camera, MultiFrameNumber) pair.
OnePerCameraFrame(log) ==
    /\ \A i \in DOMAIN log : log[i][2] # <<>>
    /\ \A i, j \in DOMAIN log :
          (i # j /\ log[i][1] = log[j][1]) => DictKeys(log[i][2]) \cap DictKeys(log[j][2]) = {}

CountsAfter(log) == CountByCamera(camera_ids, Replay(log)).value

\* C1: for a set of observations with at most one per (camera,
\* MultiFrameNumber) pair, delivered one receive call at a time,
\* shared_view_count_by_camera after the last delivery is the same for every
\* permutation of the delivery order.
C1_OrderIndependent ==
    OnePerCameraFrame(delivered) =>
        \A p \in Permutations(DOMAIN delivered) :
            CountsAfter(Permuted(delivered, p)) = shared_view_count_by_camera

\* The receive call a step of SpecLog makes.
LastDelivery == delivered'[Len(delivered')]

\* C2: a receive that delivers an observation never removes a
\* MultiFrameNumber entry, and in the entry of the frame number it is for it
\* keeps, unchanged, the observation of every camera other than the ones it
\* delivers.
C2_Monotonic ==
    [][\A f \in StoredFrames :
          /\ DictHas(shared_views_by_frame', f)
          /\ \A c \in DictKeys(Entry(f).views_by_camera) :
                (LastDelivery[2] # <<>> /\ (f # LastDelivery[1] \/ c \notin DictKeys(LastDelivery[2]))) =>
                    /\ DictHas(DictGet(shared_views_by_frame', f).views_by_camera, c)
                    /\ DictGet(DictGet(shared_views_by_frame', f).views_by_camera, c)
                          = DictGet(Entry(f).views_by_camera, c)]_vars

\* C3: shared_view_count_by_camera has exactly the known camera ids as keys
\* and gives each the number of stored MultiFrameNumbers in which that camera
\* sees the target and at least two cameras see it.
C3_CountExact ==
    /\ ~CountByCamera(camera_ids, shared_views_by_frame).raised
    /\ DictKeys(shared_view_count_by_camera) = KnownCameras
    /\ \A c \in KnownCameras : Count(c) = Cardinality(MultiViewFrames(c))

\* C3 witness: a camera with a shared view that also sees the target in a
\* stored frame no other camera sees it in.
C3_Witness ==
    \E c \in KnownCameras :
        /\ Count(c) >= 1
        /\ \E f \in StoredFrames : Seeing(Entry(f)) = {c}

\* C4: all_cameras_have_min_shared_views(threshold) is true exactly when every
\* known camera has at least threshold stored frames shared with another camera.
C4_ReadinessIff ==
    \A t \in Thresholds :
        all_cameras_have_min_shared_views(t)
            <=> (\A c \in KnownCameras : Cardinality(MultiViewFrames(c)) >= t)

\* C4 witness: several cameras, the predicate true for a threshold of 1 or
\* more and false for the next one, the cameras' counts differing.
C4_Witness ==
    /\ \E t \in Thresholds :
          /\ t >= 1
          /\ all_cameras_have_min_shared_views(t)
          /\ ~all_cameras_have_min_shared_views(t + 1)
    /\ \E c, d \in KnownCameras : Count(c) > Count(d)

\* C5: shared_target_views holds exactly the stored entries that at least two
\* cameras see, in increasing MultiFrameNumber order.
C5_SharedViewsInFrameOrder ==
    /\ \A i, j \in DOMAIN shared_target_views :
          i < j => shared_target_views[i].multi_frame_number
                     < shared_target_views[j].multi_frame_number
    /\ {shared_target_views[i] : i \in DOMAIN shared_target_views}
          = {Entry(f) : f \in {g \in StoredFrames : Cardinality(Seeing(Entry(g))) >= 2}}

\* Delivery j of the log carries only observations that an earlier delivery
\* carried for the same frame number with the same content.
Redelivery(log, j) ==
    /\ log[j][2] # <<>>
    /\ \E i \in 1..(j - 1) :
          /\ log[i][1] = log[j][1]
          /\ \A k \in DOMAIN log[j][2] : \E m \in DOMAIN log[i][2] : log[i][2][m] = log[j][2][k]

Without(log, j) == SubSeq(log, 1, j - 1) \o SubSeq(log, j + 1, Len(log))

\* C6: delivering an observation a second time with identical content leaves
\* shared_view_count_by_camera as it is without the second delivery.
C6_Idempotent ==
    \A j \in DOMAIN delivered :
        Redelivery(delivered, j) => CountsAfter(Without(delivered, j)) = shared_view_count_by_camera

CoSeeingScenario ==
    /\ camera_ids = <<1, 2, 3>>
    /\ StoredFrames = CoSeeingFrames
    /\ \A f \in StoredFrames : Seeing(Entry(f)) = {1, 2}

PairwiseComplete ==
    /\ StoredFrames = DOMAIN PairwiseScenario
    /\ \A f \in StoredFrames : Seeing(Entry(f)) = PairwiseScenario[f]

\* C9: with A-B seeing the target in frames 1-2, B-C in 3-4 and A-C in 5-6,
\* every camera's shared-view count is 4 and
\* all_cameras_have_min_shared_views(2) is true.
C9_PairwiseCounts ==
    PairwiseComplete =>
        /\ \A c \in KnownCameras : Count(c) = 4
        /\ all_cameras_have_min_shared_views(2)

\* C9 witness: all six frames have been received.
C9_Witness == PairwiseComplete /\ KnownCameras = {1, 2, 3}

\* C10: for a non-empty camera set all_cameras_have_min_shared_views(0) is
\* true in every reachable state.
C10_ThresholdZero ==
    camera_ids # <<>> => all_cameras_have_min_shared_views(0)

\* C10 witness: a non-empty camera set with shared views counted.
C10_Witness ==
    /\ camera_ids # <<>>
    /\ \E c \in KnownCameras : Count(c) > 0

----------------------------------------------------------------------------
(* The effect of one receive call on the frame it is for and on the others *)

\* C11: a receive for MultiFrameNumber f stores every observation it
\* delivers under its camera id in the entry for f, and leaves as they were
\* the entries of every other MultiFrameNumber and the participating camera
\* ids.
C11_FrameEffect ==
    [][LET f == LastDelivery[1]
           out == LastDelivery[2]
       IN  /\ DictHas(shared_views_by_frame', f)
           /\ \A c \in DictKeys(out) :
                 /\ DictHas(DictGet(shared_views_by_frame', f).views_by_camera, c)
                 /\ DictGet(DictGet(shared_views_by_frame', f).views_by_camera, c) = DictGet(out, c)
           /\ \A g \in MultiFrameNumbers \ {f} :
                 /\ DictHas(shared_views_by_frame', g) <=> DictHas(shared_views_by_frame, g)
                 /\ DictHas(shared_views_by_frame, g) =>
                       DictGet(shared_views_by_frame', g) = DictGet(shared_views_by_frame, g)
           /\ camera_ids' = camera_ids]_vars

----------------------------------------------------------------------------
(* The camera nodes: shutdown and failure *)

\* The exceptions raised inside the loop of _run.
LoopErrors == {"shm", "detector", "queue"}

\* The node has gone through its loop and its process has ended.
ExitedFromLoop(n) == node_pc[n] = "exited" /\ node_error[n] \in LoopErrors \cup {"none"}

\* C12: a node that hit an error inside its loop (shared-memory read,
\* detector or channel put) sets the shutdown flag before its process ends:
\* the flag is set in every state in which a node that ran its loop has
\* exited.
C12_FlagSetBeforeExit ==
    \A n \in Nodes : ExitedFromLoop(n) => shutdown_event

\* C12 witness: nobody but the node set the flag, and the node has exited
\* with an error of its loop.
C12_Witness ==
    \E n \in Nodes :
        /\ node_pc[n] = "exited"
        /\ node_error[n] \in LoopErrors
        /\ flag_set_by = n

\* C13: after a node has set the flag because of a shared-memory error, each
\* sibling begins at most one more loop iteration and publishes at most one
\* more observation, and then every node exits.
C13_SiblingsStop ==
    /\ [](\A n \in Nodes :
            (flag_set_by = n /\ node_error[n] = "shm") =>
                \A m \in Nodes \ {n} :
                    /\ after_flag[m].iterations <= 1
                    /\ after_flag[m].published <= 1)
    /\ \A n \in Nodes :
          (flag_set_by = n /\ node_error[n] = "shm") ~> (\A m \in Nodes : node_pc[m] = "exited")

\* C13 witness: the sibling of the node that failed published one more
\* observation after the flag was set, and has exited.
C13_Witness ==
    \E n \in Nodes :
        /\ flag_set_by = n
        /\ node_error[n] = "shm"
        /\ \E m \in Nodes \ {n} :
              /\ after_flag[m].published = 1
              /\ node_pc[m] = "exited"

\* C14: the shared-memory handle is released on every exit path: no process
\* has ended with its handle open.
C14_HandleReleased ==
    \A n \in Nodes : node_pc[n] = "exited" => ~handle_open[n]

\* Once the flag is set every node leaves its loop, closes its handle and
\* exits.
ShutdownTerminates ==
    shutdown_event ~> (\A n \in Nodes : node_pc[n] = "exited")

\* C15: a detector failure is not fatal: the step in which process_image
\* fails leaves the flag as it was, publishes an observation that cannot see
\* the target, and takes the node to the next iteration of its loop.
C15_DetectorFailureNotFatal ==
    [][\A n \in Nodes :
          (node_pc[n] = "detect" /\ node_error'[n] = "detector") =>
              /\ node_pc'[n] = "check"
              /\ output_queue' = Append(output_queue, CalibrationCameraNodeOutputData("blind"))
              /\ shutdown_event' = shutdown_event]_vars

----------------------------------------------------------------------------
(* The orchestrator's state machine *)

\* Every camera of the session has at least threshold stored frames shared
\* with another camera.
CoverageReached == \A c \in KnownCameras : Cardinality(MultiViewFrames(c)) >= threshold

\* Some camera has fewer than 5 qualifying frames in a session started with
\* min_shared_views = 5.
CoverageShortOfFive ==
    /\ threshold = 5
    /\ \E c \in KnownCameras : Cardinality(MultiViewFrames(c)) < 5

\* C16: a session started with min_shared_views = 5 in which some camera has
\* fewer than 5 qualifying frames is never READY, SOLVING or DONE; the expiry
\* of the session timeout takes it to ABORTED with "insufficient coverage",
\* and that is the reason of every abort that neither a cancellation nor a
\* node caused.
C16_InsufficientCoverageAborts ==
    /\ [](CoverageShortOfFive => status \in {"COLLECTING", "ABORTED"})
    /\ []((CoverageShortOfFive /\ status = "ABORTED" /\ flag_set_by = -2) =>
            reported = "insufficient coverage")
    /\ [][(CoverageShortOfFive /\ SessionTimeout) =>
            (status' = "ABORTED" /\ reported' = "insufficient coverage")]_vars

\* C16 witness: a session with min_shared_views = 5 that nobody cancelled and
\* in which no node set the flag is ABORTED with "insufficient coverage".
C16_Witness ==
    /\ threshold = 5
    /\ status = "ABORTED"
    /\ reported = "insufficient coverage"
    /\ flag_set_by = -2

\* C17: the status changes only along COLLECTING -> READY -> SOLVING -> DONE
\* or from a non-terminal state to ABORTED; nothing leaves DONE or ABORTED.
C17_StatusTransitions ==
    [][status' # status =>
          \/ <<status, status'>> \in {<<"COLLECTING", "READY">>, <<"READY", "SOLVING">>, <<"SOLVING", "DONE">>}
          \/ status \in {"COLLECTING", "READY", "SOLVING"} /\ status' = "ABORTED"]_vars

\* C17 witness: a session is DONE.
C17_Witness == status = "DONE"

\* C18: READY is entered only in a state where every camera has reached the
\* threshold; a "finish early" signal while some camera has not leaves the
\* session in COLLECTING or takes it to ABORTED, with "insufficient coverage"
\* reported.
C18_ReadyOnlyWhenCovered ==
    [][/\ (status # "READY" /\ status' = "READY") => CoverageReached
       /\ (FinishEarly /\ ~CoverageReached) =>
             /\ status' \in {"COLLECTING", "ABORTED"}
             /\ reported' = "insufficient coverage"]_vars

\* C18 witness: a session with a threshold of 1 was refused "finish early"
\* and is READY.
C18_Witness ==
    /\ threshold = 1
    /\ status = "READY"
    /\ reported = "insufficient coverage"

\* The solver has its input and has not returned.
Solving == status = "SOLVING" /\ solver_input # <<>>

\* The stored views, in the accumulator's order, in which two or more
\* cameras see the target.
MultiViewEntries(by_frame) ==
    SelectSeq(DictValues(by_frame), LAMBDA view : Cardinality(Seeing(view)) >= 2)

\* C19: the flag is set before the snapshot, and from the snapshot until the
\* solver returns no node publishes an observation and the accumulator does
\* not change: the solver's input is the accumulator's state at the
\* snapshot.
C19_NoPublishWhileSolving ==
    /\ solver_input # <<>> => shutdown_event
    /\ Solving =>
          /\ \A n \in Nodes : after_flag[n].published = solver_input[1].published[n]
          /\ shared_views_by_frame = solver_input[1].accumulated
          /\ solver_input[1].views = MultiViewEntries(shared_views_by_frame)

\* What does hold while the solver runs: the flag was set before the
\* snapshot, the accumulator is as it was at the snapshot and the solver's
\* input is its multi-view entries; no node begins a loop iteration after the
\* flag is set, and a node that was inside one puts at most one observation
\* on the channel.
SolverInputIsSnapshot ==
    /\ solver_input # <<>> => shutdown_event
    /\ Solving =>
          /\ \A n \in Nodes : after_flag[n].iterations = 0 /\ after_flag[n].published <= 1
          /\ shared_views_by_frame = solver_input[1].accumulated
          /\ solver_input[1].views = MultiViewEntries(shared_views_by_frame)

\* A node's process ended with an error of its loop, or the caller cancelled,
\* and the orchestrator is still COLLECTING.
InterruptedCollecting ==
    /\ status = "COLLECTING"
    /\ \/ flag_set_by = -1
       \/ \E n \in Nodes : node_pc[n] = "exited" /\ node_error[n] \in LoopErrors

\* C20: when the session is cancelled or a node reports an error while the
\* orchestrator is COLLECTING, the orchestrator's next poll takes it to
\* ABORTED; the session is never DONE, since in a session that is DONE the
\* flag was first set by the orchestrator itself; in ABORTED the shutdown
\* flag is set and the accumulator's state is discarded.
C20_AbortOnCancelOrError ==
    /\ [][(InterruptedCollecting /\ (PollReady \/ PollAbort)) => status' = "ABORTED"]_vars
    /\ [](status = "DONE" => flag_set_by = -2)
    /\ [](status = "ABORTED" => (shutdown_event /\ shared_views_by_frame = EmptyDict))

\* C20 witness: a node whose read of the shared memory failed set the flag
\* and the session is ABORTED for a node error.
C20_Witness ==
    /\ status = "ABORTED"
    /\ reported = "node error"
    /\ \E n \in Nodes : flag_set_by = n /\ node_error[n] = "shm"

----------------------------------------------------------------------------
(* The accumulator: stability, failures and stored state *)

\* The delivery just received holds an observation that sees the target.
DeliversSeeing ==
    \E k \in DOMAIN LastDelivery[2] : LastDelivery[2][k][2].can_see_target

\* C25: once all_cameras_have_min_shared_views(t) is true for a threshold t
\* it is true after every further receive, the redelivery of a stored frame
\* number with other content included; the formula states it for the
\* receives that deliver an observation seeing the target.
C25_ReadinessStable ==
    [][\A t \in Thresholds :
          (DeliversSeeing /\ all_cameras_have_min_shared_views(t)) =>
              all_cameras_have_min_shared_views(t)']_vars

\* C26: shared_view_count_by_camera and all_cameras_have_min_shared_views
\* return a value in every state, also after a multi-view frame with a
\* camera id outside camera_ids was received.
C26_CountsNeverFail == ~CountByCamera(camera_ids, shared_views_by_frame).raised

\* C27: every stored observation sees the target, so the camera ids an
\* entry stores are its cameras_that_can_see_target, and the entry's
\* multi_frame_number is the key it is stored under.
C27_StoredObservationsSee ==
    \A i \in DOMAIN shared_views_by_frame :
        LET key == shared_views_by_frame[i][1]
            view == shared_views_by_frame[i][2]
        IN  /\ \A j \in DOMAIN view.views_by_camera : view.views_by_camera[j][2].can_see_target
            /\ cameras_that_can_see_target(view) = [j \in DOMAIN view.views_by_camera |-> view.views_by_camera[j][1]]
            /\ view.multi_frame_number = key

\* C27 witness: an observation that does not see the target was delivered
\* with one that does, and the frame's entry is stored.
C27_Witness ==
    \E i \in DOMAIN delivered :
        /\ \E k, m \in DOMAIN delivered[i][2] :
              /\ ~delivered[i][2][k][2].can_see_target
              /\ delivered[i][2][m][2].can_see_target
        /\ i = Len(delivered)
        /\ Entry(delivered[i][1]).views_by_camera # <<>>

\* The entries of shared_target_views whose cameras_that_can_see_target
\* contains camera c.
SolverViewsOf(c) ==
    {i \in DOMAIN shared_target_views :
        \E j \in DOMAIN cameras_that_can_see_target(shared_target_views[i]) :
            cameras_that_can_see_target(shared_target_views[i])[j] = c}

\* C28: for every known camera c, shared_view_count_by_camera[c] is the
\* number of entries of shared_target_views in which c sees the target, and
\* shared_target_views holds each MultiFrameNumber at most once.
C28_CountsAgreeWithSolverInput ==
    /\ \A c \in KnownCameras : Count(c) = Cardinality(SolverViewsOf(c))
    /\ \A i, j \in DOMAIN shared_target_views :
          i # j => shared_target_views[i].multi_frame_number # shared_target_views[j].multi_frame_number

\* C28 witness: a camera has a count of 1 while two frames are stored, one
\* of them seen by a single camera.
C28_Witness ==
    /\ Cardinality(StoredFrames) = 2
    /\ \E c \in KnownCameras : Count(c) = 1
    /\ \E f \in StoredFrames : Cardinality(Seeing(Entry(f))) = 1

\* The cameras whose shared-view count is above 0.
CountedCameras == {c \in KnownCameras : Count(c) > 0}

\* C29: the number of cameras with a count above 0 is never exactly one,
\* and no count exceeds the number of stored frame entries.
C29_NeverOneCountedCamera ==
    /\ Cardinality(CountedCameras) # 1
    /\ \A c \in KnownCameras : Count(c) <= Len(shared_views_by_frame)

\* C29 witness: two cameras are counted in every stored frame and a third
\* in none.
C29_Witness ==
    /\ Cardinality(KnownCameras) = 3
    /\ Cardinality(CountedCameras) = 2
    /\ \E c \in CountedCameras : Count(c) = Len(shared_views_by_frame)

----------------------------------------------------------------------------
(* The camera node: what it publishes, and its siblings *)

\* Node n holds a frame it has claimed with retrieve_frame and not yet
\* published an observation for.
HoldsClaimedFrame(n) == node_pc[n] \in {"detect", "put"}

\* C21: every frame a node claims results in exactly one observation on the
\* output channel: the step that ends the node's work on a claimed frame
\* appends that frame's observation to output_queue.
C21_ClaimedFramePublished ==
    [][\A n \in Nodes :
          (HoldsClaimedFrame(n) /\ ~HoldsClaimedFrame(n)') =>
              output_queue' = Append(output_queue, CalibrationCameraNodeOutputData(observation[n]))]_vars

\* A message that carries camera id c and frame sequence number f.
Tagged(message, c, f) ==
    /\ {"camera_id", "multi_frame_number"} \subseteq DOMAIN message
    /\ message.camera_id = c
    /\ message.multi_frame_number = f

\* C22: every message on the output channel is tagged with the CameraId of a
\* node and the sequence number of a frame, so that the consumer can
\* attribute it to one (CameraId, MultiFrameNumber) pair.
C22_MessagesTagged ==
    \A i \in DOMAIN output_queue :
        \E n \in Nodes, f \in 1..MaxNodeFrames : Tagged(output_queue[i], n, f)

\* Node m has failed inside the detector and it was m that set the flag.
DetectorFailureSetFlag(m) ==
    /\ node_error[m] = "detector"
    /\ flag_set_by = m

\* C24: a detector that crashes in one node does not stall the others: no
\* other node leaves its polling loop on a flag that was set by the node whose
\* detector failed.
C24_DetectorCrashIsolated ==
    [][\A n \in Nodes :
          (node_pc[n] = "check" /\ node_pc'[n] = "finally") =>
              ~\E m \in Nodes \ {n} : DetectorFailureSetFlag(m)]_vars

----------------------------------------------------------------------------
(* The thread worker *)

\* run is over: it has returned, or an exception has left it.
RunOver == worker_pc \in {"returned", "raised"}

\* C30: run emits finished exactly once per run, also when starting or
\* polling the child process raises, and only after every message the child
\* process has put on the queue was emitted as in_progress, in queue order.
C30_FinishedOnceAfterMessages ==
    /\ finished <= 1
    /\ RunOver => finished = 1
    /\ finished = 1 => in_progress = put_messages
    /\ Len(in_progress) <= Len(put_messages)
    /\ in_progress = SubSeq(put_messages, 1, Len(in_progress))

====
